---- MODULE Spec2Model ----
(***************************************************************************)
(* Model of ppixel's pixel-to-terminal pipeline (src/image_cli.py):        *)
(* ResizeImage size normalisation, RGBUtils quantisation / ANSI encoding   *)
(* with its process-wide colour cache, and ImagePrinter rendering; and of   *)
(* the LOADING of MessageCLI with its worker thread (src/build.py).        *)
(***************************************************************************)
EXTENDS Integers, Sequences, FiniteSets, TLC

VARIABLES
    image_size,           \* ResizeImage: source size (w, h) of the call
    resize,               \* ResizeImage: the resize argument, None or (w?, h?)
    maintain_proportion,  \* ResizeImage: the maintain_proportion argument
    normalized,           \* ResizeImage: outcome of the size computation
    CACHE,                \* RGBUtils.CACHE: colour -> ANSI fragment
    round_rgb_memo,       \* lru_cache of RGBUtils.round_rgb, least recent first
    round_channel_memo,   \* lru_cache of RGBUtils.round_channel
    RGB_ROUND_STEP,       \* ImagePrinter.RGB_ROUND_STEP
    call,                 \* the last call made: arguments and outcome
    calls,                \* number of calls made so far
    loading_enable,       \* MessageCLI.loading_enable
    output_cache,         \* MessageCLI.output_cache
    index,                \* loading: position in loading_chars
    called,               \* loading: whether the worker thread was started
    return_,              \* main (worker thread): what call returned
    output,               \* Builder.build: last_output read after a LOADING
    pc_loading,           \* position of the thread running loading
    pc_main,              \* position of the worker thread running main
    loadings              \* number of loading calls begun so far

resizeVars == <<image_size, resize, maintain_proportion, normalized>>
colorVars == <<CACHE, round_rgb_memo, round_channel_memo, RGB_ROUND_STEP, call, calls>>
loadVars == <<loading_enable, output_cache, index, called, return_, output,
              pc_loading, pc_main, loadings>>
vars == <<image_size, resize, maintain_proportion, normalized,
          CACHE, round_rgb_memo, round_channel_memo, RGB_ROUND_STEP, call, calls,
          loading_enable, output_cache, index, called, return_, output,
          pc_loading, pc_main, loadings>>

\* An optional value is None or Some(v); Val unwraps it.
None == <<>>
Some(v) == <<v>>
Val(o) == o[1]

\* The value of the singleton S: Only({e(x) : x \in {v}}) evaluates v once
\* and names it x in e.
Only(S) == CHOOSE x \in S : TRUE

\* ---------------------------------------------------------------- bounds
MaxSrc == 11     \* largest source width / height drawn
MaxDim == 15     \* largest requested target width / height drawn
MaxCalls == 2    \* direct to_ansi / round_rgb calls in one behaviour
MaxRenders == 2  \* from_image_file / print calls in one behaviour
MaxRows == 2     \* rows of a rendered pixel grid
MaxCols == 2     \* columns of a rendered pixel grid
MaxLoadings == 7 \* loading calls in one behaviour

\* ------------------------------------------------ Python float arithmetic
\* Natural numbers wider than the checker's integers are sequences of limbs
\* of LIMB_BITS bits, most significant first, without leading zero limbs.
LIMB_BITS == 12

RECURSIVE Pow2(_)
Pow2(n) == IF n = 0 THEN 1 ELSE 2 * Pow2(n - 1)

LimbBase == Pow2(LIMB_BITS)

RECURSIVE IntBitLen(_)
IntBitLen(n) == IF n = 0 THEN 0 ELSE 1 + IntBitLen(n \div 2)

RECURSIVE BigFromInt(_)
BigFromInt(n) ==
    IF n = 0 THEN <<>> ELSE Append(BigFromInt(n \div LimbBase), n % LimbBase)

RECURSIVE BigToIntAcc(_, _, _)
BigToIntAcc(n, k, acc) ==
    IF k > Len(n) THEN acc ELSE BigToIntAcc(n, k + 1, acc * LimbBase + n[k])

BigToInt(n) == BigToIntAcc(n, 1, 0)

RECURSIVE BigStrip(_)
BigStrip(n) == IF n # <<>> /\ n[1] = 0 THEN BigStrip(Tail(n)) ELSE n

BigBitLen(n) ==
    IF n = <<>> THEN 0 ELSE LIMB_BITS * (Len(n) - 1) + IntBitLen(n[1])

BigIsOdd(n) == n # <<>> /\ n[Len(n)] % 2 = 1

\* n * x + carry for small x, schoolbook from the low limb.
RECURSIVE BigMulAdd(_, _, _, _, _)
BigMulAdd(n, x, i, carry, acc) ==
    IF i = 0 THEN BigFromInt(carry) \o acc
    ELSE Only({BigMulAdd(n, x, i - 1, t \div LimbBase, <<t % LimbBase>> \o acc) :
               t \in {n[i] * x + carry}})

BigMulSmall(n, x) == BigMulAdd(n, x, Len(n), 0, <<>>)
BigInc(n) == BigMulAdd(n, 1, Len(n), 1, <<>>)

\* n divided by small b, long division from the high limb: [q, r].
RECURSIVE BigDivRem(_, _, _, _, _)
BigDivRem(n, b, i, rem, acc) ==
    IF i > Len(n) THEN [q |-> BigStrip(acc), r |-> rem]
    ELSE Only({BigDivRem(n, b, i + 1, cur % b, Append(acc, cur \div b)) :
               cur \in {rem * LimbBase + n[i]}})

BigDivSmall(n, b) == BigDivRem(n, b, 1, 0, <<>>)

\* n * 2^k and floor(n / 2^k).
BigShl(n, k) ==
    BigMulSmall(n, Pow2(k % LIMB_BITS)) \o [z \in 1..(k \div LIMB_BITS) |-> 0]
BigShr(n, k) ==
    IF k \div LIMB_BITS >= Len(n) THEN <<>>
    ELSE BigDivSmall(SubSeq(n, 1, Len(n) - (k \div LIMB_BITS)), Pow2(k % LIMB_BITS)).q

\* A positive float is [m |-> significand, f |-> fraction bits]: m is a
\* natural of exactly MANT_DIG bits and the value is m / 2^f.  Zero has the
\* empty significand.
MANT_DIG == 53

FloatZero == [m |-> <<>>, f |-> 0]

\* Round-half-to-even of the quotient m, given how the discarded part
\* compares with half a unit in the last place.
RoundNearestEven(m, f, aboveHalf, isHalf) ==
    IF ~(aboveHalf \/ (isHalf /\ BigIsOdd(m))) THEN [m |-> m, f |-> f]
    ELSE Only({IF BigBitLen(inc) > MANT_DIG
               THEN [m |-> BigDivSmall(inc, 2).q, f |-> f - 1]
               ELSE [m |-> inc, f |-> f] :
               inc \in {BigInc(m)}})

\* floor(log2(a / b)) for a, b >= 1.
RECURSIVE ShiftToReach(_, _, _)
ShiftToReach(a, b, k) == IF a * Pow2(k) >= b THEN k ELSE ShiftToReach(a, b, k + 1)

Log2Floor(a, b) ==
    IF a >= b THEN IntBitLen(a \div b) - 1 ELSE 0 - ShiftToReach(a, b, 1)

\* int / int: Python's true division, correctly rounded to a float.
TrueDiv(a, b) ==
    IF a = 0 THEN FloatZero
    ELSE LET f == MANT_DIG - 1 - Log2Floor(a, b)
         IN  Only({RoundNearestEven(d.q, f, 2 * d.r > b, 2 * d.r = b) :
                   d \in {BigDivSmall(BigShl(BigFromInt(a), f), b)}})

\* float * int (the int converts exactly), correctly rounded.
FloatMul(fl, x) ==
    IF fl.m = <<>> \/ x = 0 THEN FloatZero
    ELSE Only({
         LET drop == BigBitLen(p) - MANT_DIG
         IN  IF drop = 0 THEN [m |-> p, f |-> fl.f]
             ELSE Only({RoundNearestEven(d.q, fl.f - drop,
                                         d.r > Pow2(drop - 1), d.r = Pow2(drop - 1)) :
                        d \in {BigDivSmall(p, Pow2(drop))}}) :
         p \in {BigMulSmall(fl.m, x)}})

\* int(float): truncation of a non-negative float.
FloatToInt(fl) ==
    IF fl.m = <<>> THEN 0
    ELSE IF fl.f >= 0 THEN BigToInt(BigShr(fl.m, fl.f))
    ELSE BigToInt(BigShl(fl.m, 0 - fl.f))

\* ------------------------------------------------------------ ResizeImage
Ok(v) == [kind |-> "ok", value |-> v]
Raise(e) == [kind |-> e]
Pending == [kind |-> "pending"]

resize_in_proportion(size, new_width, new_height) ==
    LET w == size[1]
        h == size[2]
    IN  IF new_width # None /\ new_height = None
        THEN Only({Ok(<<FloatToInt(FloatMul(fator, w)), FloatToInt(FloatMul(fator, h))>>) :
                   fator \in {TrueDiv(Val(new_width), w)}})
        ELSE IF new_height # None /\ new_width = None
        THEN Only({Ok(<<FloatToInt(FloatMul(fator, w)), FloatToInt(FloatMul(fator, h))>>) :
                   fator \in {TrueDiv(Val(new_height), h)}})
        ELSE Raise("ValueError")

\* Python's `v or default` on an optional int: None and 0 are both falsy.
OrElse(v, default) == IF v = None \/ Val(v) = 0 THEN default ELSE Val(v)

_normalize_resize(size, rz, keep) ==
    IF rz # None
    THEN IF keep /\ (rz[1] = None \/ rz[2] = None)
         THEN resize_in_proportion(size, rz[1], rz[2])
         ELSE Ok(<<OrElse(rz[1], size[1]), OrElse(rz[2], size[2])>>)
    ELSE Ok(<<size[1], size[2]>>)

\* ---------------------------------------------------------------- strings
\* A str is a sequence of one-character strings; "ESC" stands for \x1b.
DigitChars == <<"0", "1", "2", "3", "4", "5", "6", "7", "8", "9">>

RECURSIVE DecDigits(_)
DecDigits(n) ==
    IF n < 10 THEN <<DigitChars[n + 1]>>
    ELSE Append(DecDigits(n \div 10), DigitChars[(n % 10) + 1])

\* str(n) / f"{n}" of an int.
Str(n) == IF n < 0 THEN <<"-">> \o DecDigits(0 - n) ELSE DecDigits(n)

\* "".join(parts)
RECURSIVE Join(_)
Join(parts) == IF parts = <<>> THEN <<>> ELSE Head(parts) \o Join(Tail(parts))

\* ------------------------------------------------------------- lru_cache
LRU_MAXSIZE_ROUNDED_RGB == 4096
LRU_MAXSIZE_CALC == LRU_MAXSIZE_ROUNDED_RGB \div 3

MemoHas(memo, key) == \E k \in 1..Len(memo) : memo[k].key = key
MemoIndex(memo, key) == CHOOSE k \in 1..Len(memo) : memo[k].key = key
MemoRemove(memo, k) == SubSeq(memo, 1, k - 1) \o SubSeq(memo, k + 1, Len(memo))

\* A hit returns the stored value and makes the entry the most recent.
MemoHit(memo, key) ==
    LET k == MemoIndex(memo, key)
    IN  [value |-> memo[k].value, memo |-> Append(MemoRemove(memo, k), memo[k])]

\* A miss stores the computed value, evicting the least recent when full.
MemoStore(memo, key, value, maxsize) ==
    LET full == Append(memo, [key |-> key, value |-> value])
    IN  IF Len(full) > maxsize THEN Tail(full) ELSE full

\* --------------------------------------------------------------- RGBUtils
\* The colour state threaded through a call.
ColorState(cache, rm, cm) == [CACHE |-> cache, rm |-> rm, cm |-> cm]

\* channel // step * step.  numpy marks a channel read from a pixel array
\* (numpy.uint8): there an integer division by zero yields 0 with a warning,
\* where a Python int raises ZeroDivisionError.
\* Variant of round_channel_body that rounds up to the next multiple.
round_channel_body_up(channel, step, numpy) ==
    IF step = 0
    THEN IF numpy THEN Ok(0) ELSE Raise("ZeroDivisionError")
    ELSE Ok(((channel + step - 1) \div step) * step)

round_channel_body(channel, step, numpy) ==
    IF step = 0
    THEN IF numpy THEN Ok(0) ELSE Raise("ZeroDivisionError")
    ELSE Ok((channel \div step) * step)

round_channel(channel, step, numpy, cm) ==
    LET key == <<channel, step>>
    IN  IF MemoHas(cm, key)
        THEN Only({[res |-> Ok(hit.value), cm |-> hit.memo] :
                   hit \in {MemoHit(cm, key)}})
        ELSE Only({IF r.kind = "ok"
                   THEN [res |-> r, cm |-> MemoStore(cm, key, r.value, LRU_MAXSIZE_CALC)]
                   ELSE [res |-> r, cm |-> cm] :
                   r \in {round_channel_body(channel, step, numpy)}})

round_rgb_body(rgb, step, numpy, cm) ==
    IF step < 0 THEN [res |-> Raise("ValueError"), cm |-> cm]
    ELSE Only({
         IF r.res.kind # "ok" THEN [res |-> r.res, cm |-> r.cm]
         ELSE Only({
              IF g.res.kind # "ok" THEN [res |-> g.res, cm |-> g.cm]
              ELSE Only({
                   IF b.res.kind # "ok" THEN [res |-> b.res, cm |-> b.cm]
                   ELSE [res |-> Ok(<<r.res.value, g.res.value, b.res.value>>),
                         cm |-> b.cm] :
                   b \in {round_channel(rgb[3], step, numpy, g.cm)}}) :
              g \in {round_channel(rgb[2], step, numpy, r.cm)}}) :
         r \in {round_channel(rgb[1], step, numpy, cm)}})

round_rgb(rgb, step, numpy, rm, cm) ==
    LET key == <<rgb, step>>
    IN  IF MemoHas(rm, key)
        THEN Only({[res |-> Ok(hit.value), rm |-> hit.memo, cm |-> cm] :
                   hit \in {MemoHit(rm, key)}})
        ELSE Only({IF r.res.kind = "ok"
                   THEN [res |-> r.res, cm |-> r.cm,
                         rm |-> MemoStore(rm, key, r.res.value, LRU_MAXSIZE_ROUNDED_RGB)]
                   ELSE [res |-> r.res, rm |-> rm, cm |-> r.cm] :
                   r \in {round_rgb_body(rgb, step, numpy, cm)}})

\* Variant of AnsiFormat that closes every cell with its own reset.
AnsiFormat_reset(r, g, b, text) ==
    <<"ESC", "[", "4", "8", ";", "2", ";">> \o Str(r) \o <<";">> \o Str(g)
        \o <<";">> \o Str(b) \o <<"m">> \o text \o <<"ESC", "[", "0", "m">>

\* f"\x1b[48;2;{r};{g};{b}m{text}"
AnsiFormat(r, g, b, text) ==
    <<"ESC", "[", "4", "8", ";", "2", ";">> \o Str(r) \o <<";">> \o Str(g)
        \o <<";">> \o Str(b) \o <<"m">> \o text

IsBlack(rgb) == \A k \in 1..3 : rgb[k] = 0

\* Variant of to_ansi that stores the fragment whatever use_cache says.
to_ansi_always_store(text, rgb, alpha_replacer, use_cache, round_step, numpy, st) ==
    LET replaced == alpha_replacer # None /\ IsBlack(rgb)
        color    == IF replaced THEN Val(alpha_replacer) ELSE rgb
        np       == numpy /\ ~replaced
    IN  IF use_cache /\ color \in DOMAIN st.CACHE
        THEN [res |-> Ok(st.CACHE[color]), CACHE |-> st.CACHE, rm |-> st.rm, cm |-> st.cm]
        ELSE Only({
             IF rr.res.kind # "ok"
             THEN [res |-> rr.res, CACHE |-> st.CACHE, rm |-> rr.rm, cm |-> rr.cm]
             ELSE Only({[res |-> Ok(ansi),
                         CACHE |-> (color :> ansi) @@ st.CACHE,
                         rm |-> rr.rm, cm |-> rr.cm] :
                        ansi \in {AnsiFormat(rr.res.value[1], rr.res.value[2],
                                             rr.res.value[3], text)}}) :
             rr \in {IF round_step = None
                     THEN [res |-> Ok(color), rm |-> st.rm, cm |-> st.cm]
                     ELSE round_rgb(color, Val(round_step), np, st.rm, st.cm)}})

to_ansi(text, rgb, alpha_replacer, use_cache, round_step, numpy, st) ==
    LET replaced == alpha_replacer # None /\ IsBlack(rgb)
        color    == IF replaced THEN Val(alpha_replacer) ELSE rgb
        np       == numpy /\ ~replaced
    IN  IF use_cache /\ color \in DOMAIN st.CACHE
        THEN [res |-> Ok(st.CACHE[color]), CACHE |-> st.CACHE, rm |-> st.rm, cm |-> st.cm]
        ELSE Only({
             IF rr.res.kind # "ok"
             THEN [res |-> rr.res, CACHE |-> st.CACHE, rm |-> rr.rm, cm |-> rr.cm]
             ELSE Only({[res |-> Ok(ansi),
                         CACHE |-> IF use_cache THEN (color :> ansi) @@ st.CACHE
                                   ELSE st.CACHE,
                         rm |-> rr.rm, cm |-> rr.cm] :
                        ansi \in {AnsiFormat(rr.res.value[1], rr.res.value[2],
                                             rr.res.value[3], text)}}) :
             rr \in {IF round_step = None
                     THEN [res |-> Ok(color), rm |-> st.rm, cm |-> st.cm]
                     ELSE round_rgb(color, Val(round_step), np, st.rm, st.cm)}})

\* ----------------------------------------------------------- ImagePrinter
ResetLine == <<"ESC", "[", "0", "m", "\n">>

\* The text of the cell at row i, column j (both from 0).
CellText(i, j, show_pixel_index) ==
    IF show_pixel_index THEN Str((i + 1) * j) \o <<" ">> ELSE <<" ", " ">>

\* The loops of from_image_file from cell (i, j) on: pixels is the grid as a
\* sequence of rows, lines the list built so far.
RECURSIVE RenderFrom(_, _, _, _, _, _, _)
RenderFrom(pixels, i, j, show_pixel_index, step, lines, st) ==
    IF i >= Len(pixels)
    THEN [res |-> Ok(Join(lines)), lines |-> lines,
          CACHE |-> st.CACHE, rm |-> st.rm, cm |-> st.cm]
    ELSE IF j >= Len(pixels[i + 1])
    THEN RenderFrom(pixels, i + 1, 0, show_pixel_index, step,
                    Append(lines, ResetLine), st)
    ELSE Only({
         IF a.res.kind # "ok"
         THEN [res |-> a.res, lines |-> lines,
               CACHE |-> a.CACHE, rm |-> a.rm, cm |-> a.cm]
         ELSE RenderFrom(pixels, i, j + 1, show_pixel_index, step,
                         Append(lines, a.res.value),
                         ColorState(a.CACHE, a.rm, a.cm)) :
         a \in {to_ansi(CellText(i, j, show_pixel_index), pixels[i + 1][j + 1],
                        None, TRUE, step, TRUE, st)}})

from_image_file(pixels, show_pixel_index, step, st) ==
    RenderFrom(pixels, 0, 0, show_pixel_index, step, <<>>, st)

\* ------------------------------------------------------ resize behaviours
SourceSizes == (1..MaxSrc) \X (1..MaxSrc)
TargetDims == {None} \cup {Some(d) : d \in 0..MaxDim}
ResizeArgs == {None} \cup (TargetDims \X TargetDims)

\* The class attributes as the module leaves them after import.
InitColor ==
    /\ CACHE = <<>>
    /\ round_rgb_memo = <<>>
    /\ round_channel_memo = <<>>
    /\ RGB_ROUND_STEP = None
    /\ call = [op |-> "none"]
    /\ calls = 0

\* MessageCLI.__init__, before any LOADING.
InitMessage ==
    /\ loading_enable = FALSE
    /\ output_cache = <<>>
    /\ index = 0
    /\ called = FALSE
    /\ return_ = None
    /\ output = Pending
    /\ pc_loading = "idle"
    /\ pc_main = "unstarted"
    /\ loadings = 0

InitResize ==
    /\ image_size \in SourceSizes
    /\ resize \in ResizeArgs
    /\ maintain_proportion \in BOOLEAN
    /\ normalized = Pending
    /\ InitColor
    /\ InitMessage

\* ResizeImage.resize / from_image_file: the size handed to image.resize.
NormalizeResize ==
    /\ normalized.kind = "pending"
    /\ normalized' = [op |-> "_normalize_resize"] @@
                     _normalize_resize(image_size, resize, maintain_proportion)
    /\ UNCHANGED <<image_size, resize, maintain_proportion>>
    /\ UNCHANGED colorVars
    /\ UNCHANGED loadVars

\* A direct call of the proportional routine with the same arguments.
ResizeInProportion ==
    /\ normalized.kind = "pending"
    /\ resize # None
    /\ normalized' = [op |-> "resize_in_proportion"] @@
                     resize_in_proportion(image_size, resize[1], resize[2])
    /\ UNCHANGED <<image_size, resize, maintain_proportion>>
    /\ UNCHANGED colorVars
    /\ UNCHANGED loadVars

NextResize == NormalizeResize \/ ResizeInProportion

SpecResize == InitResize /\ [][NextResize]_vars

\* ------------------------------------------------- direct RGBUtils calls
Black == <<0, 0, 0>>
Tint == <<5, 6, 255>>
Colors == {Black, Tint}
Replacers == {None, Some(Tint)}
Texts == {<<" ", " ">>, <<"1", " ">>}
IntSteps == {-1, 0, 4}
Steps == {None} \cup {Some(s) : s \in IntSteps}

IdleResize ==
    /\ image_size = <<1, 1>>
    /\ resize = None
    /\ maintain_proportion = TRUE
    /\ normalized = Pending

Init == InitColor /\ IdleResize /\ InitMessage

\* RGBUtils.to_ansi called with Python-int colours.
ToAnsi ==
    /\ calls < MaxCalls
    /\ \E text \in Texts, rgb \in Colors, alpha_replacer \in Replacers,
          use_cache \in BOOLEAN, round_step \in Steps :
          \E r \in {to_ansi(text, rgb, alpha_replacer, use_cache, round_step, FALSE,
                           ColorState(CACHE, round_rgb_memo, round_channel_memo))} :
              /\ call' = [op |-> "to_ansi", text |-> text, rgb |-> rgb,
                          alpha_replacer |-> alpha_replacer, use_cache |-> use_cache,
                          round_step |-> round_step, result |-> r.res]
              /\ CACHE' = r.CACHE
              /\ round_rgb_memo' = r.rm
              /\ round_channel_memo' = r.cm
    /\ calls' = calls + 1
    /\ UNCHANGED RGB_ROUND_STEP
    /\ UNCHANGED resizeVars
    /\ UNCHANGED loadVars

\* RGBUtils.round_rgb called with a Python-int colour.
RoundRgb ==
    /\ calls < MaxCalls
    /\ \E rgb \in Colors, step \in IntSteps :
          \E r \in {round_rgb(rgb, step, FALSE, round_rgb_memo, round_channel_memo)} :
              /\ call' = [op |-> "round_rgb", rgb |-> rgb, step |-> step,
                          result |-> r.res]
              /\ round_rgb_memo' = r.rm
              /\ round_channel_memo' = r.cm
    /\ calls' = calls + 1
    /\ UNCHANGED <<CACHE, RGB_ROUND_STEP>>
    /\ UNCHANGED resizeVars
    /\ UNCHANGED loadVars

Next == ToAnsi \/ RoundRgb

Spec == Init /\ [][Next]_vars

\* ----------------------------------------------------------------- renders
\* Pixel grids: a sequence of rows, each a sequence of colours.  The grids
\* drawn are one pixel, one row, one column and the full grid, in one colour
\* or in two colours alternating.
Shapes == {<<1, 1>>, <<1, MaxCols>>, <<MaxRows, 1>>, <<MaxRows, MaxCols>>}

Checker(h, w, c0, c1) ==
    [i \in 1..h |-> [j \in 1..w |-> IF (i + j) % 2 = 0 THEN c0 ELSE c1]]

Grids == {Checker(sh[1], sh[2], c0, c1) : sh \in Shapes, c0 \in Colors, c1 \in Colors}

Uniform(w, h, color) == [i \in 1..h |-> [j \in 1..w |-> color]]

\* ImagePrinter.from_image_file on an RGB image, under the step left in
\* RGB_ROUND_STEP.
FromImageFile ==
    /\ calls < MaxRenders
    /\ \E pixels \in Grids, show_pixel_index \in BOOLEAN :
          \E r \in {from_image_file(pixels, show_pixel_index, RGB_ROUND_STEP,
                                   ColorState(CACHE, round_rgb_memo, round_channel_memo))} :
              /\ call' = [op |-> "from_image_file", pixels |-> pixels,
                          show_pixel_index |-> show_pixel_index,
                          lines |-> r.lines, result |-> r.res]
              /\ CACHE' = r.CACHE
              /\ round_rgb_memo' = r.rm
              /\ round_channel_memo' = r.cm
    /\ calls' = calls + 1
    /\ UNCHANGED RGB_ROUND_STEP
    /\ UNCHANGED resizeVars
    /\ UNCHANGED loadVars

\* ImagePrinter.print of a one-pixel image: the resize yields a grid of the
\* normalised size in that pixel's colour, or fails on an empty size.
ImagePrinter_print ==
    /\ calls < MaxRenders
    /\ \E pixel \in Colors, show_pixel_index \in BOOLEAN, rgb_depth \in Steps,
          width \in {None, Some(0), Some(MaxCols)},
          height \in {None, Some(0), Some(MaxRows)},
          keep \in BOOLEAN :
          \E n \in {_normalize_resize(<<1, 1>>, <<width, height>>, keep)} :
              IF n.kind # "ok" \/ (n.kind = "ok" /\ (n.value[1] < 1 \/ n.value[2] < 1))
              THEN /\ call' = [op |-> "print", pixel |-> pixel,
                               show_pixel_index |-> show_pixel_index,
                               rgb_depth |-> rgb_depth, size |-> n,
                               pixels |-> <<>>, lines |-> <<>>,
                               result |-> Raise("ValueError")]
                   /\ UNCHANGED <<CACHE, round_rgb_memo, round_channel_memo,
                                  RGB_ROUND_STEP>>
              ELSE /\ n.value[1] <= MaxCols
                   /\ n.value[2] <= MaxRows
                   /\ \E pixels \in {Uniform(n.value[1], n.value[2], pixel)} :
                      \E r \in {from_image_file(pixels, show_pixel_index, rgb_depth,
                                   ColorState(CACHE, round_rgb_memo, round_channel_memo))} :
                          /\ call' = [op |-> "print", pixel |-> pixel,
                                      show_pixel_index |-> show_pixel_index,
                                      rgb_depth |-> rgb_depth, size |-> n,
                                      pixels |-> pixels, lines |-> r.lines,
                                      result |-> r.res]
                          /\ CACHE' = r.CACHE
                          /\ round_rgb_memo' = r.rm
                          /\ round_channel_memo' = r.cm
                          /\ RGB_ROUND_STEP' = rgb_depth
    /\ calls' = calls + 1
    /\ UNCHANGED resizeVars
    /\ UNCHANGED loadVars

NextRender == FromImageFile \/ ImagePrinter_print

SpecRender == Init /\ [][NextRender]_vars

\* A session mixing direct to_ansi calls with renders over one colour cache.
NextSession == ToAnsi \/ FromImageFile

SpecSession == Init /\ [][NextSession]_vars

\* ------------------------------------------------- MessageCLI (build.py)
DEFAULT_LOADING_CHARS == <<"[|]", "[/]", "[-]", "[\\]">>

\* What the callables handed to loading return.
Outputs == {0, 1}

pixelVars == <<image_size, resize, maintain_proportion, normalized,
               CACHE, round_rgb_memo, round_channel_memo, RGB_ROUND_STEP,
               call, calls>>

\* loading(call=f) up to the loop: the guard and the locals.
Loading ==
    /\ pc_loading = "idle"
    /\ loadings < MaxLoadings
    /\ IF loading_enable
       THEN /\ pc_loading' = "RuntimeError"
            /\ UNCHANGED <<loading_enable, index, called>>
       ELSE /\ loading_enable' = TRUE
            /\ index' = 0
            /\ called' = FALSE
            /\ pc_loading' = "while"
    /\ loadings' = loadings + 1
    /\ UNCHANGED <<output_cache, return_, output, pc_main>>
    /\ UNCHANGED pixelVars

\* while self.loading_enable: one reading of the flag.
LoadingTest ==
    /\ pc_loading = "while"
    /\ pc_loading' = IF loading_enable THEN "body" ELSE "returned"
    /\ UNCHANGED <<loading_enable, output_cache, index, called, return_, output,
                   pc_main, loadings>>
    /\ UNCHANGED pixelVars

\* The first pass of the loop: during_loading starts the thread running main.
DuringLoading ==
    /\ pc_loading = "body"
    /\ ~called
    /\ called' = TRUE
    /\ pc_main' = "call"
    /\ return_' = None
    /\ pc_loading' = "spin"
    /\ UNCHANGED <<loading_enable, output_cache, index, output, loadings>>
    /\ UNCHANGED pixelVars

\* The rest of the loop body: write the character, advance index, sleep.
Spin ==
    /\ pc_loading = "spin" \/ (pc_loading = "body" /\ called)
    /\ index' = (index + 1) % Len(DEFAULT_LOADING_CHARS)
    /\ pc_loading' = "while"
    /\ UNCHANGED <<loading_enable, output_cache, called, return_, output,
                   pc_main, loadings>>
    /\ UNCHANGED pixelVars

\* Builder.build after loading has returned: output = self.msg.last_output.
LastOutput ==
    /\ pc_loading = "returned"
    /\ output' = IF output_cache = <<>> THEN Raise("IndexError")
                 ELSE Ok(output_cache[Len(output_cache)])
    /\ pc_loading' = "idle"
    /\ UNCHANGED <<loading_enable, output_cache, index, called, return_,
                   pc_main, loadings>>
    /\ UNCHANGED pixelVars

\* main: return_ = call(...); call returns a value or raises, and an
\* exception ends the thread there.
MainCall ==
    /\ pc_main = "call"
    /\ \/ \E v \in Outputs : return_' = Some(v) /\ pc_main' = "append"
       \/ return_' = None /\ pc_main' = "raised"
    /\ UNCHANGED <<loading_enable, output_cache, index, called, output,
                   pc_loading, loadings>>
    /\ UNCHANGED pixelVars

\* main: trim output_cache and append return_.
MainAppend ==
    /\ pc_main = "append"
    /\ output_cache' = Append(IF Len(output_cache) > 5 THEN Tail(output_cache)
                              ELSE output_cache, Val(return_))
    /\ pc_main' = "stop"
    /\ UNCHANGED <<loading_enable, index, called, return_, output,
                   pc_loading, loadings>>
    /\ UNCHANGED pixelVars

\* main: self.stop().
Stop ==
    /\ pc_main = "stop"
    /\ IF ~loading_enable
       THEN pc_main' = "RuntimeError" /\ UNCHANGED loading_enable
       ELSE loading_enable' = FALSE /\ pc_main' = "done"
    /\ UNCHANGED <<output_cache, index, called, return_, output,
                   pc_loading, loadings>>
    /\ UNCHANGED pixelVars

LoadingThread == Loading \/ LoadingTest \/ DuringLoading \/ Spin \/ LastOutput
WorkerThread == MainCall \/ MainAppend \/ Stop

NextLoading == LoadingThread \/ WorkerThread

\* Both threads keep being scheduled: the loop sleeps on every pass and the
\* interpreter switches threads.
SpecLoading ==
    Init /\ [][NextLoading]_vars /\ WF_vars(LoadingThread) /\ WF_vars(WorkerThread)

\* ======================================================== resize properties
Returned == normalized.kind # "pending"

WidthOnly == resize # None /\ resize[1] # None /\ resize[2] = None
HeightOnly == resize # None /\ resize[1] = None /\ resize[2] # None

\* C1: with neither target width nor target height given, for either value
\* of maintain_proportion, size normalisation returns the source size and
\* raises nothing.
C1_NoDimensionsIsNoop ==
    (Returned /\ normalized.op = "_normalize_resize" /\ resize # None
        /\ resize[1] = None /\ resize[2] = None)
    => (normalized.kind = "ok" /\ normalized.value = image_size)

SpecifiedPositive ==
    /\ resize # None
    /\ resize[1] # None => Val(resize[1]) >= 1
    /\ resize[2] # None => Val(resize[2]) >= 1

\* C6: when every specified target dimension is a positive integer, the
\* pair returned by size normalisation has width >= 1 and height >= 1, for
\* both values of maintain_proportion.
C6_NormalizedSizePositive ==
    (Returned /\ normalized.op = "_normalize_resize" /\ normalized.kind = "ok"
        /\ SpecifiedPositive)
    => (normalized.value[1] >= 1 /\ normalized.value[2] >= 1)

\* C7: with only width = w > 0 given and proportion maintained the height is
\* floor(w * H / W); with only height = h > 0 given the width is
\* floor(h * W / H).
C7_ProportionalFloor ==
    (Returned /\ normalized.kind = "ok"
        /\ (normalized.op = "resize_in_proportion" \/ maintain_proportion))
    => /\ (WidthOnly /\ Val(resize[1]) >= 1) =>
              normalized.value[2] = (Val(resize[1]) * image_size[2]) \div image_size[1]
       /\ (HeightOnly /\ Val(resize[2]) >= 1) =>
              normalized.value[1] = (Val(resize[2]) * image_size[1]) \div image_size[2]

\* ================================================= reading ANSI fragments
DigitValue(ch) == CHOOSE d \in 0..9 : DigitChars[d + 1] = ch
IsDigit(ch) == \E d \in 1..10 : DigitChars[d] = ch

\* The decimal number starting at position k of s: [value, next].
RECURSIVE ReadInt(_, _, _)
ReadInt(s, k, acc) ==
    IF k <= Len(s) /\ IsDigit(s[k])
    THEN ReadInt(s, k + 1, 10 * acc + DigitValue(s[k]))
    ELSE [value |-> acc, next |-> k]

ColorPrefix == <<"ESC", "[", "4", "8", ";", "2", ";">>
ResetSeq == <<"ESC", "[", "0", "m">>

StartsWith(s, prefix) ==
    Len(s) >= Len(prefix) /\ SubSeq(s, 1, Len(prefix)) = prefix

\* Number of positions of s at which sub occurs.
CountOccurrences(s, sub) ==
    Cardinality({k \in 1..(Len(s) - Len(sub) + 1) :
                    SubSeq(s, k, k + Len(sub) - 1) = sub})

\* A fragment ESC[48;2;r;g;bm<text> read back: its channels and its text.
ReadFragment(frag) ==
    LET r == ReadInt(frag, Len(ColorPrefix) + 1, 0)
        g == ReadInt(frag, r.next + 1, 0)
        b == ReadInt(frag, g.next + 1, 0)
    IN  [channels |-> <<r.value, g.value, b.value>>,
         text |-> SubSeq(frag, b.next + 1, Len(frag)),
         wellFormed |-> /\ StartsWith(frag, ColorPrefix)
                        /\ r.next <= Len(frag) /\ frag[r.next] = ";"
                        /\ g.next <= Len(frag) /\ frag[g.next] = ";"
                        /\ b.next <= Len(frag) /\ frag[b.next] = "m"]

\* quantize(color, step) of the specification: floor each channel to a
\* multiple of the step; an omitted step leaves the colour as it is.
Quantize(color, step) ==
    IF step = None THEN color
    ELSE [k \in 1..3 |-> (color[k] \div Val(step)) * Val(step)]

\* The colour a to_ansi call encodes: the replacer for a black input.
EncodedColor(c) ==
    IF c.alpha_replacer # None /\ c.rgb = Black THEN Val(c.alpha_replacer) ELSE c.rgb

ValidStep(step) == step = None \/ Val(step) > 0

IsToAnsi == call.op = "to_ansi"
IsRoundRgb == call.op = "round_rgb"
IsRender == call.op \in {"from_image_file", "print"}

\* ===================================================== colour properties
\* The cell of the rendered list at row i, column j (both from 0).
CellAt(i, j) == call.lines[i * (Len(call.pixels[1]) + 1) + j + 1]

\* C2: in a render with show_pixel_index, the cell at (i, j) carries the
\* label decimal((i+1)*j) followed by one space, whatever the colours and
\* whatever the colour cache held.
C2_IndexLabels ==
    (IsRender /\ call.result.kind = "ok" /\ call.show_pixel_index)
    => \A i \in 0..(Len(call.pixels) - 1) : \A j \in 0..(Len(call.pixels[1]) - 1) :
          ReadFragment(CellAt(i, j)).text = Str((i + 1) * j) \o <<" ">>

\* C3: every key a to_ansi call adds to the colour cache is the
\* post-quantization colour quantize(color, step) of its (possibly
\* replaced) input colour.
C3_CacheKeyIsQuantized ==
    [][\A k \in (DOMAIN CACHE') \ (DOMAIN CACHE) :
          /\ call'.op = "to_ansi"
          /\ k = Quantize(EncodedColor(call'), call'.round_step)]_vars

\* C4: whatever steps earlier cached calls used, a to_ansi call with colour
\* c and step s returns a fragment whose channels are quantize(c, s), or c
\* itself when no step is given.
C4_StepChangeKeepsChannels ==
    (IsToAnsi /\ call.result.kind = "ok" /\ ValidStep(call.round_step))
    => ReadFragment(call.result.value).channels
           = Quantize(EncodedColor(call), call.round_step)

\* C5: a step <= 0 supplied to round_rgb or to to_ansi makes the call fail
\* with ValueError, in every cache state, and leaves the colour cache as it
\* was.
C5_BadStepRaisesValueError ==
    [][(\/ (call'.op = "round_rgb" /\ call'.step <= 0)
        \/ (call'.op = "to_ansi" /\ call'.round_step # None
               /\ Val(call'.round_step) <= 0))
       => (call'.result.kind = "ValueError" /\ CACHE' = CACHE)]_vars

\* C8: for a step s > 0, round_rgb(c, s) has every channel <= that of c and
\* a multiple of s, and rounding the result again with s returns it
\* unchanged, whatever the memo tables hold.
C8_QuantizeProperties ==
    (IsRoundRgb /\ call.step > 0)
    => /\ call.result.kind = "ok"
       /\ \A k \in 1..3 : /\ call.result.value[k] <= call.rgb[k]
                          /\ call.result.value[k] % call.step = 0
       /\ round_rgb(call.result.value, call.step, FALSE,
                    round_rgb_memo, round_channel_memo).res = Ok(call.result.value)

\* A round_rgb call that lowered a colour, made after an earlier call had
\* filled the memo tables.
C8_Witness ==
    /\ IsRoundRgb /\ call.step > 0 /\ call.result.kind = "ok"
    /\ call.result.value # call.rgb
    /\ calls >= 2 /\ round_rgb_memo # <<>> /\ round_channel_memo # <<>>

\* C9: with a replacer a and the input colour (0,0,0), to_ansi returns the
\* same fragment and has the same cache effect as to_ansi on a itself, so
\* the black pixel is encoded in the replacer's colour.
C9_ReplacerEncoded ==
    [][(call'.op = "to_ansi" /\ call'.rgb = Black /\ call'.alpha_replacer # None)
       => LET a == Val(call'.alpha_replacer)
              direct == to_ansi(call'.text, a, None, call'.use_cache,
                                call'.round_step, FALSE,
                                ColorState(CACHE, round_rgb_memo, round_channel_memo))
          IN  /\ call'.result = direct.res
              /\ CACHE' = direct.CACHE
              /\ (call'.result.kind = "ok" /\ ValidStep(call'.round_step))
                 => ReadFragment(call'.result.value).channels
                        = Quantize(a, call'.round_step)]_vars

\* C10: the rendered string is the row-major concatenation of W cell
\* fragments per row, each row followed by one reset ESC[0m and a newline:
\* H resets in all, the k-th after the cells of row k, none inside a cell.
C10_RowStructure ==
    (IsRender /\ call.result.kind = "ok")
    => LET H == Len(call.pixels)
           W == Len(call.pixels[1])
           out == call.result.value
       IN  /\ Len(call.lines) = H * (W + 1)
           /\ out = Join(call.lines)
           /\ CountOccurrences(out, ResetSeq) = H
           /\ CountOccurrences(out, ColorPrefix) = H * W
           /\ \A k \in 1..Len(call.lines) :
                 IF k % (W + 1) = 0
                 THEN call.lines[k] = ResetLine
                 ELSE /\ ReadFragment(call.lines[k]).wellFormed
                      /\ CountOccurrences(call.lines[k], ResetSeq) = 0

\* A second render, of a grid with two rows and two columns and index
\* labels, entered with a colour cache the first render filled.
C10_Witness ==
    /\ IsRender /\ call.result.kind = "ok" /\ call.show_pixel_index
    /\ Len(call.pixels) = 2 /\ Len(call.pixels[1]) = 2
    /\ calls = 2

\* C11: across to_ansi and render calls the colour cache only grows: no step
\* removes a key or changes the fragment under an existing key, and a
\* to_ansi call with use_cache = FALSE leaves the cache as it was and returns
\* what it would return on an empty cache.
C11_CacheAppendOnly ==
    [][/\ \A k \in DOMAIN CACHE : k \in DOMAIN CACHE' /\ CACHE'[k] = CACHE[k]
       /\ (call'.op = "to_ansi" /\ ~call'.use_cache)
          => /\ CACHE' = CACHE
             /\ call'.result
                  = to_ansi(call'.text, call'.rgb, call'.alpha_replacer, FALSE,
                            call'.round_step, FALSE,
                            ColorState(<<>>, round_rgb_memo, round_channel_memo)).res]_vars

\* An uncached to_ansi call for a colour the cache already holds under
\* another text: the call returned its own fragment, not the stored one.
C11_Witness ==
    /\ IsToAnsi /\ ~call.use_cache /\ call.result.kind = "ok"
    /\ EncodedColor(call) \in DOMAIN CACHE
    /\ CACHE[EncodedColor(call)] # call.result.value

\* ==================================================== LOADING properties
InLoading == pc_loading \in {"while", "body", "spin"}

\* C12: loading(call=f) runs f once in a worker thread and stops as soon as
\* f finishes: under fair scheduling the loop exits however f ends, the
\* worker's stop() never finds loading_enable already False, the return
\* value is in output_cache before loading_enable is cleared, and when
\* loading returns last_output is f's result.
C12_LoadingStops ==
    /\ InLoading ~> (pc_loading = "returned")
    /\ [](pc_main # "RuntimeError")
    /\ []((pc_main = "done" \/ pc_loading = "returned")
            => (return_ # None /\ output_cache # <<>>
                  /\ output_cache[Len(output_cache)] = Val(return_)))

====
